---- MODULE Spec2Model ----
(***************************************************************************)
(* ScaPyra: inverse kinematics and motion sequencing of a two-arm planar   *)
(* SCARA robot (src/src/ScaPyra/geometry.py, scara.py, cli.py).            *)
(*                                                                         *)
(* Numbers.  The program computes in IEEE doubles.  Here a float is a      *)
(* fixed-point integer: a length is a whole number of 1/Res of the length  *)
(* unit, an angle a whole number of millidegrees.  Divisions round to the  *)
(* nearest integer, the square root is the integer square root and atan2   *)
(* is computed by CORDIC rotations, so every operator below computes its   *)
(* result the way the source does, with a rounding error of about one      *)
(* fixed-point unit instead of one ulp.                                    *)
(***************************************************************************)
EXTENDS Integers, Sequences, FiniteSets, TLC

(***************************************************************************)
(* Fixed-point representation of floats                                    *)
(***************************************************************************)
\* fixed-point units per length unit (np.asarray(..., dtype=float))
Res == 50

\* millidegrees per degree
Deg(n) == n * 1000

Abs(n) == IF n < 0 THEN -n ELSE n

\* n / m rounded to the nearest integer (m > 0), halves away from zero
RoundDiv(n, m) == IF n >= 0 THEN (2 * n + m) \div (2 * m)
                            ELSE -((2 * (-n) + m) \div (2 * m))

\* largest s with s * s <= n, by bisection on [lo, hi]
RECURSIVE SqrtIter(_, _, _)
SqrtIter(n, lo, hi) ==
    IF lo >= hi THEN lo
    ELSE LET mid == (lo + hi + 1) \div 2
         IN  IF mid * mid <= n THEN SqrtIter(n, mid, hi)
                               ELSE SqrtIter(n, lo, mid - 1)

\* np.sqrt / np.linalg.norm on fixed-point values: floor of the square root
ISqrt(n) == SqrtIter(n, 0, 46340)

(***************************************************************************)
(* geometry.py                                                             *)
(***************************************************************************)
\* Python's None; an Optional value is None or a non-empty tuple
None == <<>>

\* eps = 1e-9 of find_circle_intersections, in fixed-point units, for
\* coordinates given in millimetres (the robot): less than one unit, so
\* d < eps exactly when d < 1
EpsMM == 1

\* the guard "h_sq > -1e-9" absorbs the rounding error of a at tangency; the
\* rounding error of the fixed-point a is a few units, that is a few
\* multiples of r1 in h_sq
HsqTol(r1) == 8 * (Abs(r1) + 1)

\* np.linalg.norm(p2 - p1) > s, decided on the exact square
NormGt(d2, s) == s < 0 \/ d2 > s * s

\* NormLt with <= for <
NormLt_Inclusive(d2, s) == s > 0 /\ d2 <= s * s

\* np.linalg.norm(p2 - p1) < s, decided on the exact square
NormLt(d2, s) == s > 0 /\ d2 < s * s

\* find_circle_intersections(p1, r1, p2, r2): None, or the pair
\* <<p3 + offset, p3 - offset>>.  eps is the function's constant 1e-9
\* expressed in the fixed-point units of the caller's coordinates.
find_circle_intersections(p1, r1, p2, r2, eps) ==
    IF Len(p1) # 2 \/ Len(p2) # 2 THEN None
    ELSE
    LET dx == p2[1] - p1[1]
        dy == p2[2] - p1[2]
        d2 == dx * dx + dy * dy
        d  == ISqrt(d2)
    IN  IF NormGt(d2, r1 + r2) \/ NormLt(d2, Abs(r1 - r2)) \/ NormLt(d2, eps)
        THEN None
        ELSE
        LET a     == RoundDiv(r1 * r1 - r2 * r2 + d2, 2 * d)
            h_sq0 == r1 * r1 - a * a
        IN  IF h_sq0 < 0 /\ ~(h_sq0 > -HsqTol(r1)) THEN None
            ELSE
            LET h_sq   == IF h_sq0 < 0 THEN 0 ELSE h_sq0
                h      == ISqrt(h_sq)
                p3     == <<p1[1] + RoundDiv(a * dx, d), p1[2] + RoundDiv(a * dy, d)>>
                offset == <<RoundDiv(h * (-dy), d), RoundDiv(h * dx, d)>>
            IN  << <<p3[1] + offset[1], p3[2] + offset[2]>>,
                   <<p3[1] - offset[1], p3[2] - offset[2]>> >>

\* select_intersection_point with the last index of the minimum
select_intersection_point_LastMin(intersections) ==
    IF intersections = None THEN None
    ELSE IF Len(intersections) # 2 THEN None
    ELSE IF Len(intersections[1]) # 2 \/ Len(intersections[2]) # 2 THEN None
    ELSE LET idx == IF intersections[1][1] < intersections[2][1] THEN 1 ELSE 2
         IN  intersections[idx]

\* select_intersection_point: np.argmin over the x column returns the first
\* index of the minimum
select_intersection_point(intersections) ==
    IF intersections = None THEN None
    ELSE IF Len(intersections) # 2 THEN None
    ELSE IF Len(intersections[1]) # 2 \/ Len(intersections[2]) # 2 THEN None
    ELSE LET idx == IF intersections[1][1] <= intersections[2][1] THEN 1 ELSE 2
         IN  intersections[idx]

\* atan(2^-(i-1)) in millidegrees, i = 1..16
AtanTable == <<45000, 26565, 14036, 7125, 3576, 1790, 895, 448,
               224, 112, 56, 28, 14, 7, 3, 2>>

\* CORDIC in vectoring mode: the angle of (vx, vy), vx > 0, in millidegrees
RECURSIVE Cordic(_, _, _, _)
Cordic(vx, vy, acc, i) ==
    IF vy = 0 \/ i > Len(AtanTable) THEN acc
    ELSE LET sx == RoundDiv(vx, 2^(i - 1))
             sy == RoundDiv(vy, 2^(i - 1))
         IN  IF vy > 0 THEN Cordic(vx + sy, vy - sx, acc + AtanTable[i], i + 1)
                       ELSE Cordic(vx - sy, vy + sx, acc - AtanTable[i], i + 1)

\* np.degrees(np.arctan2(dy, dx)) in millidegrees, in (-180000, 180000]
arctan2_degrees(dy, dx) ==
    IF dx > 0 THEN Cordic(16 * dx, 16 * dy, 0, 1)
    ELSE IF dx < 0
         THEN IF dy >= 0 THEN Deg(180) - Cordic(16 * (-dx), 16 * dy, 0, 1)
                         ELSE -Deg(180) - Cordic(16 * (-dx), 16 * dy, 0, 1)
    ELSE IF dy > 0 THEN Deg(90)
    ELSE IF dy < 0 THEN -Deg(90)
    ELSE 0

\* calculate_angle(point, intersection): None, or <<angle>> with the angle
\* normalised to [0, 360) degrees
calculate_angle(point, intersection) ==
    IF point = None \/ intersection = None THEN None
    ELSE IF Len(point) # 2 \/ Len(intersection) # 2 THEN None
    ELSE LET dx    == intersection[1] - point[1]
             dy    == intersection[2] - point[2]
             angle == arctan2_degrees(dy, dx)
         IN  IF angle < 0 THEN <<angle + Deg(360)>> ELSE <<angle>>

(***************************************************************************)
(* scara.py: SCARAController                                               *)
(***************************************************************************)
\* SCARAController.__init__: the object's fields (lengths in millimetres,
\* angles in degrees); the TCP fields x, y are the state variables below
SCARAController(x0, y0, engine_spacing, arm, forearm, max_angle, min_pulse, max_pulse, motor1_angle_offset, motor2_angle_offset) ==
    [ motor1_channel      |-> 0,
      motor2_channel      |-> 1,
      lift_servo_channel  |-> 2,
      x                   |-> x0,
      y                   |-> y0,
      engine_spacing      |-> engine_spacing,
      arm                 |-> arm,
      forearm             |-> forearm,
      max_angle           |-> max_angle,
      min_pulse           |-> min_pulse,
      max_pulse           |-> max_pulse,
      motor1_angle_offset |-> motor1_angle_offset,
      motor2_angle_offset |-> motor2_angle_offset,
      x1                  |-> -(engine_spacing \div 2),
      y1                  |-> -50,
      x2                  |-> engine_spacing \div 2,
      y2                  |-> -50 ]

\* the default arguments of __init__
DefaultController == SCARAController(0, 100, 160, 180, 260, 270, 2590, 570, 68, 214)

\* Python's round(n / m) for m > 0: to the nearest integer, halves to even
RoundHalfEven(n, m) ==
    LET q == n \div m
        r == n % m
    IN  IF 2 * r < m THEN q
        ELSE IF 2 * r > m THEN q + 1
        ELSE IF q % 2 = 0 THEN q ELSE q + 1

\* angle_to_pulse without the "% 360" of line 59
angle_to_pulse_NoModulo(self, angle, motor) ==
    IF motor \notin {"motor1", "motor2"}
    THEN [err |-> "ValueError", pulse |-> 0]
    ELSE
    LET angle_offset   == IF motor = "motor1" THEN Deg(self.motor1_angle_offset)
                                              ELSE Deg(self.motor2_angle_offset)
        adjusted_angle == angle - angle_offset
    IN  IF ~(0 <= adjusted_angle /\ adjusted_angle <= Deg(self.max_angle))
        THEN [err |-> "ValueError", pulse |-> 0]
        ELSE [err   |-> "",
              pulse |-> RoundHalfEven(
                            adjusted_angle * (self.max_pulse - self.min_pulse)
                              + self.min_pulse * Deg(self.max_angle),
                            Deg(self.max_angle))]

\* angle_to_pulse(angle, motor), angle in millidegrees: the pulse, or the
\* ValueError it raises (unknown motor, adjusted angle out of range)
angle_to_pulse(self, angle, motor) ==
    IF motor \notin {"motor1", "motor2"}
    THEN [err |-> "ValueError", pulse |-> 0]
    ELSE
    LET angle_offset   == IF motor = "motor1" THEN Deg(self.motor1_angle_offset)
                                              ELSE Deg(self.motor2_angle_offset)
        adjusted_angle == (angle - angle_offset) % Deg(360)
    IN  IF ~(0 <= adjusted_angle /\ adjusted_angle <= Deg(self.max_angle))
        THEN [err |-> "ValueError", pulse |-> 0]
        ELSE [err   |-> "",
              pulse |-> RoundHalfEven(
                            adjusted_angle * (self.max_pulse - self.min_pulse)
                              + self.min_pulse * Deg(self.max_angle),
                            Deg(self.max_angle))]

\* a float coordinate given in millimetres, in fixed-point units
Float(v) == v * Res

\* flat_move, lines 87-113: both arms' intersections, selections and angles;
\* None when a circle pair has no intersection or a selection or angle is None
ArmGeometry(self, target_x, target_y) ==
    LET r1 == Float(self.arm)
        r2 == Float(self.arm)
        intersections1 == find_circle_intersections(
                              <<Float(self.x1), Float(self.y1)>>, r1,
                              <<Float(target_x), Float(target_y)>>, Float(self.forearm), EpsMM)
        intersections2 == find_circle_intersections(
                              <<Float(self.x2), Float(self.y2)>>, r2,
                              <<Float(target_x), Float(target_y)>>, Float(self.forearm), EpsMM)
    IN  IF intersections1 = None \/ intersections2 = None THEN None
        ELSE
        LET selected_intersection1 == select_intersection_point(intersections1)
            selected_intersection2 == select_intersection_point(intersections2)
        IN  IF selected_intersection1 = None \/ selected_intersection2 = None THEN None
            ELSE
            LET angle1 == calculate_angle(<<Float(self.x1), Float(self.y1)>>, selected_intersection1)
                angle2 == calculate_angle(<<Float(self.x2), Float(self.y2)>>, selected_intersection2)
            IN  IF angle1 = None \/ angle2 = None THEN None
                ELSE << [ intersection1 |-> selected_intersection1,
                          intersection2 |-> selected_intersection2,
                          angle1        |-> angle1[1],
                          angle2        |-> angle2[1] ] >>

\* WorkspaceOk without the arm-2 band
WorkspaceOk_NoArm2Band(angle1, angle2) ==
    ~(angle1 < Deg(45) \/ angle1 > Deg(315))

\* flat_move, lines 115-119: the workspace constraints on the two angles
WorkspaceOk(angle1, angle2) ==
    /\ ~(angle1 < Deg(45) \/ angle1 > Deg(315))
    /\ (angle2 <= Deg(135) \/ angle2 >= Deg(225))

(***************************************************************************)
(* Bounds of the model                                                     *)
(***************************************************************************)
\* targets lie on a grid around the home position: spacing in millimetres
GridStep == 40
\* grid columns to the left of the home position
GridLeft == 5
\* grid columns to the right of the home position
GridRight == 8
\* grid rows below the home position (the last ones have y < 0)
GridDown == 3
\* grid rows above the home position
GridUp == 7
\* interpolated_flat_move is called with steps in 0..MaxSteps
MaxSteps == 3
\* the actuator may raise at its 1st..MaxFault-th command of a call
MaxFault == 2

Self == DefaultController

Targets == { <<Self.x + GridStep * i, Self.y + GridStep * j>> :
                 i \in -GridLeft..GridRight, j \in -GridDown..GridUp }

\* the arm geometry of every grid target, computed once
ArmGeometryTable == [ t \in Targets |-> ArmGeometry(Self, t[1], t[2]) ]

ArmGeometryOf(self, target_x, target_y) ==
    IF self = Self /\ <<target_x, target_y>> \in Targets
    THEN ArmGeometryTable[<<target_x, target_y>>]
    ELSE ArmGeometry(self, target_x, target_y)

(***************************************************************************)
(* State                                                                   *)
(***************************************************************************)
VARIABLES
    x, y,    \* self.x, self.y: the TCP
    cmds,    \* the actuator commands issued by the last call, in order
    ret,     \* what the last call returned or raised
    fault,   \* whether the actuator raised during the last call
    call,    \* the last call: operation, arguments, TCP on entry, flat_move calls made
    pc,      \* the caller: "idle", or "returned" from a call whose result it holds
    probe    \* input and result of the pure functions under test

vars == <<x, y, cmds, ret, fault, call, pc, probe>>

\* the running call: TCP, commands issued, setServoPulse calls made, flat_move
\* calls made, and the pending return value or exception
Enter == [x |-> x, y |-> y, cmds |-> <<>>, n |-> 0, moves |-> 0,
          ret |-> "", fault |-> FALSE]

\* PCA9685.setServoPulse(channel, pulse): the command takes effect, or the
\* driver raises (the faultAt-th command of the call does; 0: none does).
\* target is the flat_move target the command was computed for.
setServoPulse(m, channel, pulse, target, faultAt) ==
    IF m.n + 1 = faultAt
    THEN [m EXCEPT !.n = @ + 1, !.ret = "ActuatorError", !.fault = TRUE]
    ELSE [m EXCEPT !.n = @ + 1,
                   !.cmds = Append(@, [channel |-> channel, pulse |-> pulse,
                                       target |-> target])]

\* a call that has not raised returns value
Returned(m, value) == IF m.ret # "" THEN m ELSE [m EXCEPT !.ret = value]

\* flat_move, lines 129-141: motor 2 is commanded with pulse2, unless
\* angle_to_pulse raised; then the geometry is returned
CommandMotor2(self, m1, target, pulse2, faultAt) ==
    IF pulse2.err # "" THEN [m1 EXCEPT !.ret = pulse2.err]
    ELSE Returned(setServoPulse(m1, self.motor2_channel, pulse2.pulse, target, faultAt),
                  "dict")

\* flat_move, lines 127-129: after motor 1 was commanded
AfterMotor1(self, m1, g, target, faultAt) ==
    IF m1.ret # "" THEN m1
    ELSE CommandMotor2(self, m1, target,
                       angle_to_pulse(self, g.angle2, "motor2"), faultAt)

\* flat_move, lines 126-127: motor 1 is commanded with pulse1, unless
\* angle_to_pulse raised
CommandMotor1(self, mT, g, target, pulse1, faultAt) ==
    IF pulse1.err # "" THEN [mT EXCEPT !.ret = pulse1.err]
    ELSE AfterMotor1(self,
                     setServoPulse(mT, self.motor1_channel, pulse1.pulse, target, faultAt),
                     g, target, faultAt)

\* ValidateAndMove with the TCP updated before the workspace check
ValidateAndMove_CommitFirst(self, m, g, target_x, target_y, faultAt) ==
    IF g = None THEN [m EXCEPT !.ret = "None"]
    ELSE IF ~WorkspaceOk(g[1].angle1, g[1].angle2)
         THEN [m EXCEPT !.x = target_x, !.y = target_y, !.ret = "None"]
    ELSE CommandMotor1(self, [m EXCEPT !.x = target_x, !.y = target_y], g[1],
                       <<target_x, target_y>>,
                       angle_to_pulse(self, g[1].angle1, "motor1"), faultAt)

\* flat_move, lines 99-130: g is the arm geometry of the target; the move is
\* rejected, or the TCP is updated and then the servo pulses are sent
ValidateAndMove(self, m, g, target_x, target_y, faultAt) ==
    IF g = None THEN [m EXCEPT !.ret = "None"]
    ELSE IF ~WorkspaceOk(g[1].angle1, g[1].angle2) THEN [m EXCEPT !.ret = "None"]
    ELSE CommandMotor1(self, [m EXCEPT !.x = target_x, !.y = target_y], g[1],
                       <<target_x, target_y>>,
                       angle_to_pulse(self, g[1].angle1, "motor1"), faultAt)

\* flat_move(target_x, target_y): ret is "None", "dict", or the exception
flat_move(self, m, target_x, target_y, faultAt) ==
    IF target_y < 0 THEN [m EXCEPT !.moves = @ + 1, !.ret = "None"]
    ELSE ValidateAndMove(self, [m EXCEPT !.moves = @ + 1],
                         ArmGeometryOf(self, target_x, target_y),
                         target_x, target_y, faultAt)

\* linspace that leaves out the start point (endpoint-only spacing)
linspace_NoStart(start, stop, num) ==
    [ i \in 1..num |-> start + (i * (stop - start)) \div num ]

\* np.linspace(start, stop, num) for num >= 0
linspace(start, stop, num) ==
    [ i \in 1..num |->
        IF num = 1 THEN start
        ELSE IF i = num THEN stop
        ELSE start + ((i - 1) * (stop - start)) \div (num - 1) ]

\* the for loop of interpolated_flat_move from waypoint i on: flat_move is
\* called on waypoint i, and its result move_data decides whether to go on
RECURSIVE InterpolationLoop(_, _, _, _, _, _)
\* AfterWaypoint that skips a rejected waypoint and goes on
AfterWaypoint_Continue(self, move_data, x_values, y_values, i, faultAt) ==
    IF move_data.ret \notin {"None", "dict"} THEN move_data
    ELSE InterpolationLoop(self, [move_data EXCEPT !.ret = ""],
                           x_values, y_values, i + 1, faultAt)

AfterWaypoint(self, move_data, x_values, y_values, i, faultAt) ==
    IF move_data.ret = "None" THEN [move_data EXCEPT !.ret = "False"]
    ELSE IF move_data.ret # "dict" THEN move_data
    ELSE InterpolationLoop(self, [move_data EXCEPT !.ret = ""],
                           x_values, y_values, i + 1, faultAt)

InterpolationLoop(self, m, x_values, y_values, i, faultAt) ==
    IF i > Len(x_values) THEN [m EXCEPT !.ret = "True"]
    ELSE AfterWaypoint(self, flat_move(self, m, x_values[i], y_values[i], faultAt),
                       x_values, y_values, i, faultAt)

\* interpolated_flat_move(target_x, target_y, steps)
interpolated_flat_move(self, m, target_x, target_y, steps, faultAt) ==
    InterpolationLoop(self, m, linspace(m.x, target_x, steps),
                      linspace(m.y, target_y, steps), 1, faultAt)

\* TryResult without the except clause: the exception propagates
TryResult_NoExcept(m) == IF m.ret # "" THEN m ELSE [m EXCEPT !.ret = "True"]

\* lift_robot / lower_robot, lines 213-215: True, or False when an exception
\* was caught
TryResult(m) == IF m.ret # "" THEN [m EXCEPT !.ret = "False"]
                              ELSE [m EXCEPT !.ret = "True"]

\* lift_robot / lower_robot, lines 211-212: after the moving pulse, the stop pulse
StopPhase(self, m1, stop_pulse, faultAt) ==
    IF m1.ret # "" THEN TryResult(m1)
    ELSE TryResult(setServoPulse(m1, self.lift_servo_channel, stop_pulse, None, faultAt))

\* the body shared by lift_robot and lower_robot: moving pulse, sleep, stop
\* pulse, inside try/except
TwoPhase(self, m, moving_pulse, stop_pulse, faultAt) ==
    StopPhase(self,
              setServoPulse(m, self.lift_servo_channel, moving_pulse, None, faultAt),
              stop_pulse, faultAt)

\* lift_robot(lift_pulse, stop_pulse)
lift_robot(self, m, lift_pulse, stop_pulse, faultAt) ==
    TwoPhase(self, m, lift_pulse, stop_pulse, faultAt)

\* lower_robot(lower_pulse, stop_pulse)
lower_robot(self, m, lower_pulse, stop_pulse, faultAt) ==
    TwoPhase(self, m, lower_pulse, stop_pulse, faultAt)

(***************************************************************************)
(* The controller as a state machine                                       *)
(***************************************************************************)
NoProbe == [fn |-> "none"]

NoCall == [op |-> "", target |-> <<>>, steps |-> 0, x0 |-> 0, y0 |-> 0,
           moves |-> 0, pulses |-> <<>>]

\* the controller right after __init__
InitController ==
    /\ x = Self.x
    /\ y = Self.y
    /\ cmds = <<>>
    /\ ret = ""
    /\ fault = FALSE
    /\ call = NoCall
    /\ pc = "idle"

Init ==
    /\ InitController
    /\ probe = NoProbe

\* a call made by the idle caller runs to its return or exception
Return(m, op, target, steps, pulses) ==
    /\ pc' = "returned"
    /\ x' = m.x
    /\ y' = m.y
    /\ cmds' = m.cmds
    /\ ret' = m.ret
    /\ fault' = m.fault
    /\ call' = [op |-> op, target |-> target, steps |-> steps,
                x0 |-> x, y0 |-> y, moves |-> m.moves, pulses |-> pulses]
    /\ UNCHANGED probe

FlatMove ==
    /\ pc = "idle"
    /\ \E t \in Targets, faultAt \in 0..MaxFault :
        Return(flat_move(Self, Enter, t[1], t[2], faultAt), "flat_move", t, 0, <<>>)

\* the waypoints of the call are whole millimetres and lie on the grid
ExactWaypoints(t, steps) ==
    /\ steps >= 2 => /\ (t[1] - x) % (steps - 1) = 0
                     /\ (t[2] - y) % (steps - 1) = 0
    /\ \A i \in 1..steps :
           <<linspace(x, t[1], steps)[i], linspace(y, t[2], steps)[i]>> \in Targets

InterpolatedFlatMove ==
    /\ pc = "idle"
    /\ \E t \in Targets, steps \in 0..MaxSteps, faultAt \in 0..MaxFault :
        /\ ExactWaypoints(t, steps)
        /\ Return(interpolated_flat_move(Self, Enter, t[1], t[2], steps, faultAt),
                  "interpolated_flat_move", t, steps, <<>>)

LiftRobot ==
    /\ pc = "idle"
    /\ \E faultAt \in 0..MaxFault :
        Return(lift_robot(Self, Enter, 1500, 1550, faultAt),
               "lift_robot", <<x, y>>, 0, <<1500, 1550>>)

LowerRobot ==
    /\ pc = "idle"
    /\ \E faultAt \in 0..MaxFault :
        Return(lower_robot(Self, Enter, 1610, 1550, faultAt),
               "lower_robot", <<x, y>>, 0, <<1610, 1550>>)

\* the caller takes the result of the call; it may then call again
TakeResult ==
    /\ pc = "returned"
    /\ pc' = "idle"
    /\ cmds' = <<>>
    /\ ret' = ""
    /\ fault' = FALSE
    /\ call' = NoCall
    /\ UNCHANGED <<x, y, probe>>

Next == FlatMove \/ InterpolatedFlatMove \/ LiftRobot \/ LowerRobot \/ TakeResult

Spec == Init /\ [][Next]_vars

(***************************************************************************)
(* Properties                                                              *)
(***************************************************************************)
Home == <<Self.x, Self.y>>
Tcp == <<x, y>>
Entry == <<call.x0, call.y0>>
Pivot1 == <<Float(Self.x1), Float(Self.y1)>>
Pivot2 == <<Float(Self.x2), Float(Self.y2)>>

\* the angle of arm 1 (arm 2) for target t: None, or <<angle>>
Arm1Angle(t) ==
    calculate_angle(Pivot1, select_intersection_point(
        find_circle_intersections(Pivot1, Float(Self.arm),
                                  <<Float(t[1]), Float(t[2])>>, Float(Self.forearm), EpsMM)))
Arm2Angle(t) ==
    calculate_angle(Pivot2, select_intersection_point(
        find_circle_intersections(Pivot2, Float(Self.arm),
                                  <<Float(t[1]), Float(t[2])>>, Float(Self.forearm), EpsMM)))

\* the angle bands: arm 1 in [45, 315], arm 2 in [0, 135] or [225, 360)
InBands(a1, a2) ==
    /\ Deg(45) <= a1 /\ a1 <= Deg(315)
    /\ \/ (0 <= a2 /\ a2 <= Deg(135))
       \/ (Deg(225) <= a2 /\ a2 < Deg(360))

\* the full kinematic validation of a target, stage by stage
PassesValidation(t) ==
    /\ t[2] >= 0
    /\ Arm1Angle(t) # None
    /\ Arm2Angle(t) # None
    /\ InBands(Arm1Angle(t)[1], Arm2Angle(t)[1])

Valid == [ t \in Targets |-> PassesValidation(t) ]

AfterCall(op) == pc = "returned" /\ call.op = op

\* C1: a flat_move whose target fails the validation at any stage returns
\* None without raising, leaves the TCP as it was on entry and issues no
\* actuator command; so does every flat_move that returns None.
C1_RejectedMoveHasNoEffect ==
    (AfterCall("flat_move") /\ (~Valid[call.target] \/ ret = "None"))
        => /\ ret = "None"
           /\ ~Valid[call.target]
           /\ Tcp = Entry
           /\ cmds = <<>>

\* a move rejected by an angle band, made after the TCP had left home
C1_Witness ==
    /\ AfterCall("flat_move")
    /\ ret = "None"
    /\ call.target[2] >= 0
    /\ Arm1Angle(call.target) # None /\ Arm2Angle(call.target) # None
    /\ Entry # Home

\* C2 (as claimed): in every reachable state the TCP passes the full
\* kinematic validation of flat_move.
C2_TcpAlwaysValidated == Valid[Tcp]

\* the waypoints of the last interpolated_flat_move call
Waypoints ==
    [ i \in 1..call.steps |-> <<linspace(call.x0, call.target[1], call.steps)[i],
                                linspace(call.y0, call.target[2], call.steps)[i]>> ]

\* k is the first waypoint that fails the validation
FirstFailing(k) ==
    /\ k \in 1..call.steps
    /\ ~Valid[Waypoints[k]]
    /\ \A i \in 1..(k - 1) : Valid[Waypoints[i]]

\* the commands are those of waypoints 1..n, in order, motor 1 then motor 2
CommandsFollow(n) ==
    /\ Len(cmds) = 2 * n
    /\ \A i \in 1..n :
          /\ cmds[2 * i - 1].channel = Self.motor1_channel
          /\ cmds[2 * i - 1].target = Waypoints[i]
          /\ cmds[2 * i].channel = Self.motor2_channel
          /\ cmds[2 * i].target = Waypoints[i]

C5_TrueMeansAtTarget ==
    (AfterCall("interpolated_flat_move") /\ call.steps >= 1)
        => /\ Waypoints[call.steps] = call.target
           /\ ret = "True" => Tcp = call.target

\* C6 (as claimed): a flat_move in which angle_to_pulse raises for either
\* motor issues no actuator command.
C6_NoCommandWhenMappingFails ==
    (AfterCall("flat_move") /\ ret = "ValueError") => cmds = <<>>

\* the two angles of target t exist and lie in the bands
InsideBands == [ t \in Targets |->
                   /\ Arm1Angle(t) # None
                   /\ Arm2Angle(t) # None
                   /\ InBands(Arm1Angle(t)[1], Arm2Angle(t)[1]) ]

\* C7: every command on the motor-1 or motor-2 channel was computed for a
\* target whose arm-1 angle lies in [45, 315] and whose arm-2 angle lies in
\* [0, 135] or [225, 360); so was every TCP update.
C7_CommandsOnlyInsideBands ==
    pc = "returned" =>
        /\ \A i \in 1..Len(cmds) :
               cmds[i].channel \in {Self.motor1_channel, Self.motor2_channel}
                   => InsideBands[cmds[i].target]
        /\ Tcp # Entry => InsideBands[Tcp]

C7_Witness ==
    /\ AfterCall("flat_move")
    /\ ret = "dict"
    /\ Len(cmds) = 2
    /\ Tcp = call.target
    /\ Tcp # Entry

LiftCommand(pulse) ==
    [channel |-> Self.lift_servo_channel, pulse |-> pulse, target |-> None]

\* C8: lift_robot and lower_robot command the lift servo channel only: the
\* moving pulse, then the stop pulse, and return True; when the actuator
\* raises at either command they return False having issued only the
\* commands before it; the TCP is as it was on entry.
C8_LiftLowerTwoPhase ==
    (AfterCall("lift_robot") \/ AfterCall("lower_robot"))
        => /\ Tcp = Entry
           /\ \A i \in 1..Len(cmds) : cmds[i].channel = Self.lift_servo_channel
           /\ ~fault => /\ ret = "True"
                        /\ cmds = <<LiftCommand(call.pulses[1]), LiftCommand(call.pulses[2])>>
           /\ fault => /\ ret = "False"
                       /\ cmds \in {<<>>, <<LiftCommand(call.pulses[1])>>}

\* the actuator raised at the stop pulse of lower_robot
C8_Witness ==
    /\ AfterCall("lower_robot")
    /\ fault
    /\ ret = "False"
    /\ Len(cmds) = 1
    /\ Tcp # Home

(***************************************************************************)
(* angle_to_pulse as a pure function of the calibration, the motor and the *)
(* angle                                                                   *)
(***************************************************************************)
\* the valid range [0, max_angle] is sampled at PulseSamples + 1 points
PulseSamples == 12

\* calibrations: the default one, the same servo not inverted, and another
\* span, range and pair of offsets
Calibrations ==
    { SCARAController(0, 100, 160, 180, 260, c[1], c[2], c[3], c[4], c[5]) :
        c \in { <<270, 2590, 570, 68, 214>>,
                <<270, 570, 2590, 68, 214>>,
                <<180, 2590, 570, 0, 350>>,
                <<180, 1000, 2000, 0, 350>>,
                <<270, 1500, 1500, 68, 214>> } }

\* adjusted angles in millidegrees: samples of [0, max_angle] with both
\* endpoints, and two values outside it
AdjustedAngles(self) ==
    { (k * Deg(self.max_angle)) \div PulseSamples : k \in 0..PulseSamples }
        \cup { Deg(self.max_angle) + 1, Deg(360) - 1 }

MotorOffset(self, motor) ==
    IF motor = "motor1" THEN self.motor1_angle_offset ELSE self.motor2_angle_offset

\* an angle in [0, 360) degrees, or one turn below or above it, whose
\* adjusted angle is adj
AngleFor(self, motor, adj, turn) ==
    ((Deg(MotorOffset(self, motor)) + adj) % Deg(360)) + turn * Deg(360)

InitPulse ==
    /\ InitController
    /\ \E self \in Calibrations, motor \in {"motor1", "motor2"}, turn \in {-1, 0, 1} :
         \E a \in AdjustedAngles(self), b \in AdjustedAngles(self) :
            probe = [fn |-> "angle_to_pulse", self |-> self, motor |-> motor,
                     turn |-> turn, a |-> a, b |-> b, done |-> FALSE,
                     pa |-> [err |-> "", pulse |-> 0],
                     pb |-> [err |-> "", pulse |-> 0]]

\* angle_to_pulse is applied to the two angles
ApplyAngleToPulse ==
    /\ probe.fn = "angle_to_pulse"
    /\ ~probe.done
    /\ probe' = [probe EXCEPT
                   !.done = TRUE,
                   !.pa = angle_to_pulse(probe.self, AngleFor(probe.self, probe.motor,
                                                              probe.a, probe.turn), probe.motor),
                   !.pb = angle_to_pulse(probe.self, AngleFor(probe.self, probe.motor,
                                                              probe.b, probe.turn), probe.motor)]
    /\ UNCHANGED <<x, y, cmds, ret, fault, call, pc>>

NextPulse == ApplyAngleToPulse

SpecPulse == InitPulse /\ [][NextPulse]_vars

InRange(self, adj) == 0 <= adj /\ adj <= Deg(self.max_angle)

Between(lo, v, hi) == (lo <= v /\ v <= hi) \/ (hi <= v /\ v <= lo)

\* C9: for each motor, an adjusted angle in [0, max_angle] is mapped without
\* error: adjusted angle 0 gives min_pulse, max_angle gives max_pulse, the
\* pulse lies between min_pulse and max_pulse, and for adjusted angles
\* a <= b the pulses are non-increasing when min_pulse > max_pulse and
\* non-decreasing otherwise.
C9_PulseExactAndMonotonic ==
    (probe.fn = "angle_to_pulse" /\ probe.done) =>
        LET self == probe.self
        IN  /\ InRange(self, probe.a) =>
                  /\ probe.pa.err = ""
                  /\ Between(self.min_pulse, probe.pa.pulse, self.max_pulse)
                  /\ probe.a = 0 => probe.pa.pulse = self.min_pulse
                  /\ probe.a = Deg(self.max_angle) => probe.pa.pulse = self.max_pulse
            /\ (InRange(self, probe.a) /\ InRange(self, probe.b) /\ probe.a <= probe.b) =>
                  IF self.min_pulse > self.max_pulse
                  THEN probe.pa.pulse >= probe.pb.pulse
                  ELSE probe.pa.pulse <= probe.pb.pulse

\* the default calibration, motor 2, from the lower endpoint to an interior
\* angle one turn below [0, 360)
C9_Witness ==
    /\ probe.fn = "angle_to_pulse" /\ probe.done
    /\ probe.self = DefaultController
    /\ probe.motor = "motor2"
    /\ probe.turn = -1
    /\ probe.a = 0
    /\ probe.pa.pulse = 2590
    /\ probe.b > 0 /\ probe.b < Deg(270)
    /\ probe.pb.pulse < 2590 /\ probe.pb.pulse > 570

(***************************************************************************)
(* find_circle_intersections as a pure function of two circles             *)
(***************************************************************************)
\* coordinates and radii are whole numbers of 1/UnitsPerEps of eps = 1e-9
UnitsPerEps == 2
\* the second centre lies within GeoMax units of the origin in x and in y
GeoMax == 3
\* radii range over -1..RadMax
RadMax == 4

InitGeo ==
    /\ InitController
    /\ \E p1 \in {<<0, 0>>, <<1, -1>>},
          p2 \in (-GeoMax..GeoMax) \X (-GeoMax..GeoMax),
          r1 \in -1..RadMax, r2 \in -1..RadMax :
            probe = [fn |-> "find_circle_intersections", p1 |-> p1, r1 |-> r1,
                     p2 |-> p2, r2 |-> r2, done |-> FALSE, result |-> None]

\* find_circle_intersections is applied to the two circles
ApplyFindCircleIntersections ==
    /\ probe.fn = "find_circle_intersections"
    /\ ~probe.done
    /\ probe' = [probe EXCEPT
                   !.done = TRUE,
                   !.result = find_circle_intersections(
                                  <<Float(probe.p1[1]), Float(probe.p1[2])>>, Float(probe.r1),
                                  <<Float(probe.p2[1]), Float(probe.p2[2])>>, Float(probe.r2),
                                  Float(UnitsPerEps))]
    /\ UNCHANGED <<x, y, cmds, ret, fault, call, pc>>

NextGeo == ApplyFindCircleIntersections

SpecGeo == InitGeo /\ [][NextGeo]_vars

\* the square of the centre distance d of the probe, in whole units
DistSq == (probe.p2[1] - probe.p1[1]) * (probe.p2[1] - probe.p1[1])
            + (probe.p2[2] - probe.p1[2]) * (probe.p2[2] - probe.p1[2])

\* both radii non-negative and |r1 - r2| <= d <= r1 + r2
InBand ==
    /\ probe.r1 >= 0 /\ probe.r2 >= 0
    /\ (probe.r1 - probe.r2) * (probe.r1 - probe.r2) <= DistSq
    /\ DistSq <= (probe.r1 + probe.r2) * (probe.r1 + probe.r2)

Tangent ==
    \/ DistSq = (probe.r1 + probe.r2) * (probe.r1 + probe.r2)
    \/ DistSq = (probe.r1 - probe.r2) * (probe.r1 - probe.r2)

GeoDone == probe.fn = "find_circle_intersections" /\ probe.done

\* C10 (as claimed): a pair is returned exactly when both radii are
\* non-negative, |r1 - r2| <= d <= r1 + r2 and d > 0; in the tangent cases
\* the two points coincide.
C10_PairIffBandAndPositive ==
    GeoDone =>
        /\ (probe.result # None) <=> (InBand /\ DistSq > 0)
        /\ (probe.result # None /\ Tangent) => probe.result[1] = probe.result[2]

\* C10 (amended): a pair is returned exactly when both radii are
\* non-negative, |r1 - r2| <= d <= r1 + r2 and d >= eps = 1e-9; in the
\* tangent cases with a pair the two points coincide.
C10_PairIffBandAndEps ==
    GeoDone =>
        /\ (probe.result # None) <=> (InBand /\ DistSq >= UnitsPerEps * UnitsPerEps)
        /\ (probe.result # None /\ Tangent) => probe.result[1] = probe.result[2]

\* an internal tangency that yields the tangent point twice
C10_Witness ==
    /\ GeoDone
    /\ probe.result # None
    /\ probe.r1 > probe.r2 /\ probe.r2 > 0
    /\ DistSq = (probe.r1 - probe.r2) * (probe.r1 - probe.r2)
    /\ probe.result[1] = probe.result[2]

(***************************************************************************)
(* select_intersection_point as a pure function of a pair of points, and   *)
(* as flat_move applies it to the two arms                                 *)
(***************************************************************************)
\* the coordinates of the points of a pair range over -SelMax..SelMax
SelMax == 2

SelPoints == { <<Float(px), Float(py)>> : px \in -SelMax..SelMax, py \in -SelMax..SelMax }

\* the intersections flat_move computes for one arm (lines 90-97)
ArmIntersections(self, px, py, target) ==
    find_circle_intersections(<<Float(px), Float(py)>>, Float(self.arm),
                              <<Float(target[1]), Float(target[2])>>,
                              Float(self.forearm), EpsMM)

\* the point flat_move selected for one arm (lines 103-104), None when
\* flat_move returned before line 109 or at line 113
ArmSelection(self, target, arm) ==
    IF ArmGeometryOf(self, target[1], target[2]) = None THEN None
    ELSE IF arm = 1 THEN ArmGeometryOf(self, target[1], target[2])[1].intersection1
                    ELSE ArmGeometryOf(self, target[1], target[2])[1].intersection2

InitSel ==
    /\ InitController
    /\ \/ \E a \in SelPoints, b \in SelPoints :
             probe = [fn |-> "select_intersection_point", target |-> <<>>,
                      pair1 |-> <<a, b>>, pair2 |-> None,
                      sel1 |-> None, sel2 |-> None, done |-> FALSE]
       \/ \E t \in Targets :
             probe = [fn |-> "flat_move", target |-> t,
                      pair1 |-> None, pair2 |-> None,
                      sel1 |-> None, sel2 |-> None, done |-> FALSE]

\* select_intersection_point is applied to the pair
ApplySelectIntersectionPoint ==
    /\ probe.fn = "select_intersection_point"
    /\ ~probe.done
    /\ probe' = [probe EXCEPT !.done = TRUE,
                              !.sel1 = select_intersection_point(probe.pair1)]
    /\ UNCHANGED <<x, y, cmds, ret, fault, call, pc>>

\* flat_move computes and selects the intersections of both arms
ApplyArmSelection ==
    /\ probe.fn = "flat_move"
    /\ ~probe.done
    /\ probe' = [probe EXCEPT
                   !.done = TRUE,
                   !.pair1 = ArmIntersections(Self, Self.x1, Self.y1, probe.target),
                   !.pair2 = ArmIntersections(Self, Self.x2, Self.y2, probe.target),
                   !.sel1 = ArmSelection(Self, probe.target, 1),
                   !.sel2 = ArmSelection(Self, probe.target, 2)]
    /\ UNCHANGED <<x, y, cmds, ret, fault, call, pc>>

NextSel == ApplySelectIntersectionPoint \/ ApplyArmSelection

SpecSel == InitSel /\ [][NextSel]_vars

\* sel is the point of the pair with the strictly smaller x, the first
\* point when the two x are equal
LowestXFirst(pair, sel) ==
    /\ sel \in {pair[1], pair[2]}
    /\ pair[1][1] < pair[2][1] => sel = pair[1]
    /\ pair[2][1] < pair[1][1] => sel = pair[2]
    /\ pair[1][1] = pair[2][1] => sel = pair[1]

\* C11: select_intersection_point returns the point of the pair with the
\* strictly smaller x-coordinate, the first point when the x-coordinates are
\* equal, always one of the two points; flat_move applies this rule to the
\* intersections of arm 1 and to those of arm 2.
C11_SelectsLowestX ==
    /\ (probe.fn = "select_intersection_point" /\ probe.done) =>
            LowestXFirst(probe.pair1, probe.sel1)
    /\ (probe.fn = "flat_move" /\ probe.done
            /\ probe.pair1 # None /\ probe.pair2 # None) =>
            /\ LowestXFirst(probe.pair1, probe.sel1)
            /\ LowestXFirst(probe.pair2, probe.sel2)

\* a pair whose second point has the smaller x
C11_Witness ==
    /\ probe.fn = "select_intersection_point" /\ probe.done
    /\ probe.pair1[2][1] < probe.pair1[1][1]
    /\ probe.sel1 = probe.pair1[2]

\* both arms of flat_move have two intersections with different x and the
\* one with the smaller x is selected for each
C11_WitnessArms ==
    /\ probe.fn = "flat_move" /\ probe.done
    /\ probe.pair1 # None /\ probe.pair2 # None
    /\ probe.pair1[1][1] < probe.pair1[2][1]
    /\ probe.pair2[1][1] < probe.pair2[2][1]
    /\ probe.sel1 = probe.pair1[1]
    /\ probe.sel2 = probe.pair2[1]

\* a pair with equal x-coordinates and different points
C11_WitnessTie ==
    /\ probe.fn = "select_intersection_point" /\ probe.done
    /\ probe.pair1[1][1] = probe.pair1[2][1]
    /\ probe.pair1[1] # probe.pair1[2]
    /\ probe.sel1 = probe.pair1[1]

(***************************************************************************)
(* The command line: set_angle                                             *)
(***************************************************************************)
\* the angles given on the command line are whole degrees, multiples of
\* CliAngleStep in 0..360
CliAngleStep == 5

CliAngles == { k * CliAngleStep : k \in 0..(360 \div CliAngleStep) }

CliMotors == {"motor1", "motor2", "motor3"}

NoCommand == [fn |-> "none", angle |-> 0, motor |-> ""]

\* no command has been given yet
InitCli ==
    /\ InitController
    /\ probe = NoCommand

\* cli.py, lines 66-68: the pulse is issued on scara.motor1_channel, unless
\* angle_to_pulse raised; then "Done" is echoed
IssuePulse(scara, m, pulse, faultAt) ==
    IF pulse.err # "" THEN [m EXCEPT !.ret = pulse.err]
    ELSE Returned(setServoPulse(m, scara.motor1_channel, pulse.pulse, <<>>, faultAt),
                  "Done")

\* cli.py, set_angle(angle, motor) on a newly constructed controller
set_angle(scara, m, angle, motor, faultAt) ==
    IssuePulse(scara, m, angle_to_pulse(scara, Deg(angle), motor), faultAt)

\* the command has run to its end or to an exception
CliReturn(m, angle, motor) ==
    /\ pc' = "returned"
    /\ cmds' = m.cmds
    /\ ret' = m.ret
    /\ fault' = m.fault
    /\ call' = [NoCall EXCEPT !.op = "set_angle"]
    /\ probe' = [fn |-> "set_angle", angle |-> angle, motor |-> motor]
    /\ UNCHANGED <<x, y>>

SetAngle ==
    /\ pc = "idle"
    /\ \E angle \in CliAngles, motor \in CliMotors, faultAt \in 0..1 :
        CliReturn(set_angle(DefaultController, Enter, angle, motor, faultAt), angle, motor)

\* the process of the command exits; another command may be given
CliExit ==
    /\ pc = "returned"
    /\ pc' = "idle"
    /\ cmds' = <<>>
    /\ ret' = ""
    /\ fault' = FALSE
    /\ call' = NoCall
    /\ probe' = NoCommand
    /\ UNCHANGED <<x, y>>

NextCli == SetAngle \/ CliExit

SpecCli == InitCli /\ [][NextCli]_vars

ChosenChannel(motor) ==
    IF motor = "motor1" THEN DefaultController.motor1_channel
                        ELSE DefaultController.motor2_channel

\* C12: a set_angle(angle, motor) command that ends with "Done" has issued
\* the computed pulse on the channel of the chosen motor (motor-1 channel for
\* "motor1", motor-2 channel for "motor2"), and every command it issued is on
\* that channel.
C12_SetAngleOnChosenMotor ==
    (AfterCall("set_angle") /\ ret = "Done") =>
        /\ Len(cmds) = 1
        /\ \A i \in 1..Len(cmds) :
              /\ cmds[i].channel = ChosenChannel(probe.motor)
              /\ cmds[i].pulse =
                    angle_to_pulse(DefaultController, Deg(probe.angle), probe.motor).pulse

\* what the code does: the pulse computed for the chosen motor is issued on
\* the motor-1 channel whichever motor was chosen
C12_AlwaysMotor1Channel ==
    (AfterCall("set_angle") /\ ret = "Done") =>
        /\ Len(cmds) = 1
        /\ cmds[1].channel = DefaultController.motor1_channel
        /\ cmds[1].pulse =
              angle_to_pulse(DefaultController, Deg(probe.angle), probe.motor).pulse

\* set_angle 250 motor2 has ended with "Done"
C12_Motor2Done ==
    /\ AfterCall("set_angle") /\ ret = "Done"
    /\ probe.motor = "motor2" /\ probe.angle = 250

====
